---------------------------- MODULE Spec2Model ----------------------------
(***************************************************************************)
(* A model of the SatelliteOrbitVisualizer core: the TLE parser            *)
(* (utils/tle_parser.py), the time utilities (utils/time_utils.py), the    *)
(* anomaly solver (utils/anomalies.py), the Kepler propagator              *)
(* (utils/propagate.py) and the orchestration script (app.py).             *)
(*                                                                         *)
(* Python floats are modelled in fixed point: a float quantity q is the    *)
(* integer round(q * FX) (radians, eccentricity, sines and cosines), or    *)
(* round(q * DEG_FX) for a quantity in degrees.  Every arithmetic          *)
(* operation rounds to the nearest representable value, as a float         *)
(* operation does.  A Python exception is modelled as an outcome: the      *)
(* err field of a result holds the exception's class name, "" for a        *)
(* normal return.                                                          *)
(***************************************************************************)
EXTENDS Integers, Sequences, FiniteSets, TLC

(***************************************************************************)
(* Fixed-point arithmetic (the float operations of the source).            *)
(***************************************************************************)

\* Units per 1.0 of a float quantity.
FX == 10000

\* Units per degree of a float quantity in degrees.
DEG_FX == 100

\* math.pi, in FX units.
PI_FX == 31416

TWO_PI == 2 * PI_FX

HALF_PI == PI_FX \div 2

Abs(x) == IF x < 0 THEN -x ELSE x

\* An arithmetic operation works on the values of its operands: the
\* operators below take each operand's value once, by drawing it from a
\* singleton set, before they compute with it.

\* a / b rounded to the nearest integer (b > 0).
RoundedQuotient(a, b) == (a \div b) + (IF 2 * (a % b) >= b THEN 1 ELSE 0)

\* a / b rounded to the nearest integer (b # 0).
RDiv(a, b) ==
    CHOOSE q \in {IF y > 0 THEN RoundedQuotient(x, y) ELSE RoundedQuotient(-x, -y) :
                    x \in {a}, y \in {b}} : TRUE

\* a * m / d rounded to the nearest integer (d # 0), splitting a so that no
\* intermediate product leaves the integer width.
ScaledQuotient(a, m, d) == ((a \div d) * m) + RoundedQuotient((a % d) * m, d)

MulDiv(a, m, d) ==
    CHOOSE q \in {IF z > 0 THEN ScaledQuotient(x, y, z) ELSE ScaledQuotient(-x, y, -z) :
                    x \in {a}, y \in {m}, z \in {d}} : TRUE

\* Float multiplication and division of two FX quantities.
FMul(a, b) == MulDiv(a, b, FX)

FDiv(a, b) == MulDiv(a, FX, b)

\* floor(sqrt(n)) for n >= 0, by bisection on [lo, hi].
RECURSIVE IsqrtBetween(_, _, _)
IsqrtBetween(n, lo, hi) ==
    IF hi - lo <= 1
    THEN IF hi * hi <= n THEN hi ELSE lo
    ELSE LET mid == (lo + hi) \div 2
         IN IF mid * mid <= n
            THEN IsqrtBetween(n, mid, hi)
            ELSE IsqrtBetween(n, lo, mid)

Isqrt(n) == CHOOSE r \in {IsqrtBetween(x, 0, 46340) : x \in {n}} : TRUE

\* math.sqrt of an FX quantity v >= 0.
FSqrt(v) == IF v <= 200000 THEN Isqrt(v * FX) ELSE Isqrt(v) * Isqrt(FX)

\* Taylor series of sine and cosine on [0, pi/4].
SinSeries(x) ==
    LET x2 == FMul(x, x)
        t3 == RDiv(FMul(x, x2), 6)
        t5 == RDiv(FMul(t3, x2), 20)
        t7 == RDiv(FMul(t5, x2), 42)
    IN x - t3 + t5 - t7

CosSeries(x) ==
    LET x2 == FMul(x, x)
        t2 == RDiv(x2, 2)
        t4 == RDiv(FMul(t2, x2), 12)
        t6 == RDiv(FMul(t4, x2), 30)
    IN FX - t2 + t4 - t6

\* Sine on the first quadrant [0, pi/2].
SinQ(x) ==
    IF 2 * x <= HALF_PI THEN SinSeries(x) ELSE CosSeries(HALF_PI - x)

\* math.sin and math.cos: periodic, exact at the multiples of pi/2.
SinTurn(y) ==
    IF y <= HALF_PI THEN SinQ(y)
    ELSE IF y <= PI_FX THEN SinQ(PI_FX - y)
    ELSE IF y <= PI_FX + HALF_PI THEN -SinQ(y - PI_FX)
    ELSE -SinQ(TWO_PI - y)

Sin(x) == CHOOSE s \in {SinTurn(y) : y \in {x % TWO_PI}} : TRUE

Cos(x) == Sin(x + HALF_PI)

\* The largest angle t in [lo, hi] with tan(t) <= z (z an FX quantity in [0, 1]).
RECURSIVE AtanBetween(_, _, _)
AtanBetween(z, lo, hi) ==
    IF hi - lo <= 1
    THEN IF Sin(hi) * FX <= z * Cos(hi) THEN hi ELSE lo
    ELSE CHOOSE t \in {IF Sin(mid) * FX <= z * Cos(mid)
                       THEN AtanBetween(z, mid, hi)
                       ELSE AtanBetween(z, lo, mid) : mid \in {(lo + hi) \div 2}} :
            TRUE

\* math.atan of an FX quantity z >= 0.
AtanUnit(z) == CHOOSE t \in {AtanBetween(v, 0, HALF_PI \div 2) : v \in {z}} : TRUE

AtanPos(z) ==
    CHOOSE t \in {IF v <= FX THEN AtanUnit(v) ELSE HALF_PI - AtanUnit(MulDiv(FX, FX, v)) :
                    v \in {z}} : TRUE

\* math.atan2(y, x), in [-pi, pi]; atan2(0, 0) = 0.
AtanQuadrant(y, x, base) ==
    IF y < 0 THEN (IF x >= 0 THEN -base ELSE base - PI_FX)
    ELSE (IF x >= 0 THEN base ELSE PI_FX - base)

Atan2(y, x) ==
    CHOOSE t \in {AtanQuadrant(v, u,
                      IF u = 0 /\ v = 0 THEN 0
                      ELSE IF Abs(v) <= Abs(u)
                           THEN AtanUnit(MulDiv(Abs(v), FX, Abs(u)))
                           ELSE HALF_PI - AtanUnit(MulDiv(Abs(u), FX, Abs(v)))) :
                    v \in {y}, u \in {x}} : TRUE

\* math.tanh for x >= 0: Lambert's continued fraction below 1.5, the
\* double-angle formula above it, 1.0 from 6.0 on.
RECURSIVE TanhDen(_, _)
TanhDen(x2, k) ==
    IF k >= 6 THEN (2 * k + 1) * FX
    ELSE (2 * k + 1) * FX + FDiv(x2, TanhDen(x2, k + 1))

RECURSIVE TanhPos(_)
TanhPos(x) ==
    IF x >= 6 * FX THEN FX
    ELSE IF 2 * x <= 3 * FX THEN FDiv(x, TanhDen(FMul(x, x), 0))
    ELSE CHOOSE r \in {FDiv(2 * t, FX + FMul(t, t)) : t \in {TanhPos(x \div 2)}} : TRUE

Tanh(x) == CHOOSE r \in {IF v < 0 THEN -TanhPos(-v) ELSE TanhPos(v) : v \in {x}} : TRUE

\* math.radians and math.degrees.
Radians(d) == MulDiv(d, PI_FX, 180 * DEG_FX)

Degrees(r) == MulDiv(r, 180 * DEG_FX, PI_FX)

(***************************************************************************)
(* utils/anomalies.py                                                      *)
(***************************************************************************)

\* numiter = 100
numiter == 100

\* small = 1e-8, which is below the fixed-point resolution.
small == 0

\* The tolerance 1e-12 of the loop's exit test: below the fixed-point
\* resolution, so that abs(dE) < 1e-12 reads dE = 0.
StepTol == 1

\* The eccentricity 0.8 from which the initial guess is pi.
HighEcc == 8000

\* An update that breaks as soon as the step is below a tenth of a radian.
NewtonTakenLoose(st, dE) ==
    [E |-> st.E - dE, iters |-> st.iters + 1, err |-> "",
     met |-> Abs(dE) < FX \div 10, done |-> Abs(dE) < FX \div 10]

\* The update of lines 30-32 by the Newton step dE.
NewtonTaken(st, dE) ==
    [E |-> st.E - dE, iters |-> st.iters + 1, err |-> "",
     met |-> Abs(dE) < StepTol, done |-> Abs(dE) < StepTol]

\* One pass of newtonm's for loop on the loop state st = [E, iters, err, met,
\* done]: lines 27-32.  f and fp are computed once, as the code does.
NewtonStep(e, m, st) ==
    CHOOSE nx \in {IF fp = 0
                   THEN [st EXCEPT !.err = "ZeroDivisionError", !.done = TRUE]
                   ELSE NewtonTaken(st, FDiv(f, fp)) :
                   f \in {st.E - FMul(e, Sin(st.E)) - m},
                   fp \in {FX - FMul(e, Cos(st.E))}} : TRUE

\* At most n passes from st, stopping at the break, at an exception or at
\* the cap of numiter passes.  Each pass works on the value the pass before
\* it left, which the singleton set fixes before the next pass reads it.
RECURSIVE NewtonPasses(_, _, _, _)
NewtonPasses(e, m, st, n) ==
    IF n = 0 \/ st.done \/ st.iters = numiter THEN st
    ELSE CHOOSE r \in {NewtonPasses(e, m, nx, n - 1) : nx \in {NewtonStep(e, m, st)}} :
            TRUE

\* The for loop of newtonm, run ten passes at a time.
RECURSIVE NewtonLoop(_, _, _)
NewtonLoop(e, m, st) ==
    IF st.done \/ st.iters = numiter THEN st
    ELSE CHOOSE r \in {NewtonLoop(e, m, nx) : nx \in {NewtonPasses(e, m, st, 10)}} :
            TRUE

\* Lines 35-37: the true anomaly from the eccentric anomaly the loop left.
TrueFromEccentric(e, lp) ==
    LET E == lp.E
        den == FX - FMul(e, Cos(E))
        s2 == FX - FMul(e, e)
    IN IF lp.err # ""
       THEN [err |-> lp.err, E |-> E, nu |-> 0, iters |-> lp.iters, met |-> FALSE]
       ELSE IF s2 < 0
       THEN [err |-> "ValueError", E |-> E, nu |-> 0, iters |-> lp.iters,
             met |-> lp.met]
       ELSE IF den = 0
       THEN [err |-> "ZeroDivisionError", E |-> E, nu |-> 0,
             iters |-> lp.iters, met |-> lp.met]
       ELSE [err |-> "", E |-> E,
             nu |-> Atan2(FDiv(FMul(FSqrt(s2), Sin(E)), den), FDiv(Cos(E) - e, den)),
             iters |-> lp.iters, met |-> lp.met]

\* Lines 16-21: the hyperbolic branch.
HyperbolicAnomaly(e, E) ==
    LET z == FMul(FSqrt(FDiv(e + FX, e - FX)), Tanh(E \div 2))
    IN [err |-> "", E |-> E, nu |-> 2 * (IF z < 0 THEN -AtanPos(-z) ELSE AtanPos(z)),
        iters |-> 0, met |-> FALSE]

\* small = 1e-8 in the units of 1e-9 that hold what an eccentricity has
\* beyond its fixed-point value.
SmallNano == 10

\* ecc > 1.0 + small, of the eccentricity e / FX + excess * 1e-9 with
\* 0 <= excess * 1e-9 < 1 / FX.
Hyperbolic(e, excess) ==
    \/ e > FX + small
    \/ e = FX + small /\ excess > SmallNano

\* The guess E the loop starts from: line 25.
NewtonGuess(e, m) ==
    [E |-> IF e < HighEcc THEN m ELSE PI_FX, iters |-> 0, err |-> "",
     met |-> FALSE, done |-> FALSE]

\* Lines 35-37 for the eccentricity e / FX + excess * 1e-9: math.sqrt raises
\* ValueError on 1.0 - ecc*ecc < 0, which is the case as soon as ecc > 1.
TrueFromEccentricNear(e, excess, lp) ==
    IF lp.err = "" /\ e = FX /\ excess > 0
    THEN [err |-> "ValueError", E |-> lp.E, nu |-> 0, iters |-> lp.iters,
          met |-> lp.met]
    ELSE TrueFromEccentric(e, lp)

\* newtonm on the values e and m of its arguments.
NewtonmBody(e, m) ==
    IF e > FX + small
    THEN CHOOSE r \in {HyperbolicAnomaly(e, E) : E \in {FDiv(m, e - FX)}} : TRUE
    ELSE CHOOSE r \in
            {TrueFromEccentric(e, lp) :
                lp \in {NewtonLoop(e, m, [E |-> IF e < HighEcc THEN m ELSE PI_FX,
                                          iters |-> 0, err |-> "", met |-> FALSE,
                                          done |-> FALSE])}} : TRUE

\* newtonm(ecc, m): [err, E, nu, iters, met].
newtonm(ecc_arg, m_arg) ==
    CHOOSE r \in {NewtonmBody(e, m) : e \in {ecc_arg}, m \in {m_arg}} : TRUE

\* The normalisation of solve_true_anomaly's last two lines.
WrapDegrees(deg) == ((deg + 180 * DEG_FX) % (360 * DEG_FX)) - 180 * DEG_FX

\* solve_true_anomaly(ecc, M_deg): [err, deg].
solve_true_anomaly(e, Mdeg) ==
    CHOOSE out \in {IF r.err # "" THEN [err |-> r.err, deg |-> 0]
                    ELSE [err |-> "", deg |-> WrapDegrees(Degrees(r.nu))] :
                    r \in {newtonm(e, Radians(Mdeg) % TWO_PI)}} : TRUE

(***************************************************************************)
(* utils/time_utils.py                                                     *)
(*                                                                         *)
(* A number of days is held in thousandths of a day (DAY_FX units per      *)
(* day); a datetime is a whole number of seconds since an arbitrary        *)
(* origin.                                                                 *)
(***************************************************************************)

\* Units per day of a float quantity in days.
DAY_FX == 1000

\* int(x) of the float a / d (d > 0): truncation toward zero.
IntTrunc(a, d) == IF a >= 0 THEN a \div d ELSE -((-a) \div d)

\* total_seconds = int(numdays * 24 * 3600)
TotalSeconds(numdays) == IntTrunc(numdays * 24 * 36, DAY_FX \div 100)

\* The grid without its end point: steps = max(2, total_seconds // sample_seconds).
GridWithoutEndpoint(start_dt, numdays, sample_seconds) ==
    LET n == IF 2 >= (numdays * 86400) \div (1000 * sample_seconds)
             THEN 2 ELSE (numdays * 86400) \div (1000 * sample_seconds)
    IN [j \in 1..n |-> start_dt + (j - 1) * sample_seconds]

Max(a, b) == IF a >= b THEN a ELSE b

\* build_time_array(start_dt, numdays, sample_seconds): the list of datetimes.
build_time_array(start_dt, numdays, sample_seconds) ==
    LET total_seconds == TotalSeconds(numdays)
        steps == Max(2, (total_seconds \div sample_seconds) + 1)
    IN [j \in 1..steps |-> start_dt + (j - 1) * sample_seconds]

(***************************************************************************)
(* utils/tle_parser.py: parse_tle_lines.                                   *)
(*                                                                         *)
(* A str is a sequence of one-character strings.                           *)
(***************************************************************************)

\* The characters str.strip() removes and str.splitlines() breaks at.
Whitespace == {" ", "\t", "\n"}

LineBreaks == {"\n"}

\* str.strip()
lstrip(s) ==
    IF \A j \in 1..Len(s) : s[j] \in Whitespace THEN <<>>
    ELSE SubSeq(s, CHOOSE j \in 1..Len(s) :
                       /\ s[j] \notin Whitespace
                       /\ \A m \in 1..(j - 1) : s[m] \in Whitespace,
                Len(s))

rstrip(s) ==
    IF \A j \in 1..Len(s) : s[j] \in Whitespace THEN <<>>
    ELSE SubSeq(s, 1, CHOOSE j \in 1..Len(s) :
                          /\ s[j] \notin Whitespace
                          /\ \A m \in (j + 1)..Len(s) : s[m] \in Whitespace)

\* A strip that leaves the trailing whitespace in place.
StripLeftOnly(s) == lstrip(s)

strip(s) == rstrip(lstrip(s))

\* str.startswith(prefix)
startswith(s, prefix) ==
    /\ Len(s) >= Len(prefix)
    /\ SubSeq(s, 1, Len(prefix)) = prefix

\* The index of the first line break of t, Len(t) + 1 when it has none.
RECURSIVE FirstBreak(_, _)
FirstBreak(t, k) ==
    IF k > Len(t) \/ t[k] \in LineBreaks THEN k ELSE FirstBreak(t, k + 1)

\* str.splitlines(): a final line break opens no further line.
RECURSIVE splitlines(_)
splitlines(t) ==
    IF t = <<>> THEN <<>>
    ELSE CHOOSE r \in {<<SubSeq(t, 1, k - 1)>> \o rest :
                           rest \in {splitlines(SubSeq(t, k + 1, Len(t))) :
                                         k \in {FirstBreak(t, 1)}},
                           k \in {FirstBreak(t, 1)}} : TRUE

\* lines = [ln.strip() for ln in text.splitlines() if ln.strip() != ""]
RECURSIVE StripNonBlank(_, _)
StripNonBlank(ls, k) ==
    IF k > Len(ls) THEN <<>>
    ELSE IF strip(ls[k]) # <<>>
         THEN <<strip(ls[k])>> \o StripNonBlank(ls, k + 1)
         ELSE StripNonBlank(ls, k + 1)

NonBlankLines(text) ==
    CHOOSE r \in {StripNonBlank(ls, 1) : ls \in {splitlines(text)}} : TRUE

\* str(k) for k >= 0.
DigitChar(d) == <<"0", "1", "2", "3", "4", "5", "6", "7", "8", "9">>[d + 1]

RECURSIVE DecimalStr(_)
DecimalStr(k) ==
    IF k < 10 THEN <<DigitChar(k)>>
    ELSE DecimalStr(k \div 10) \o <<DigitChar(k % 10)>>

\* A synthesized name that counts the synthesized names before it only.
SynthNameAmongUnnamed(sats) ==
    <<"S", "A", "T", "_">>
        \o DecimalStr(Cardinality({j \in 1..Len(sats) :
                                     startswith(sats[j].name, <<"S", "A", "T", "_">>)}) + 1)

\* f"SAT_{len(sats)+1}"
SynthName(sats) == <<"S", "A", "T", "_">> \o DecimalStr(Len(sats) + 1)

ElementLine1 == <<"1", " ">>

ElementLine2 == <<"2", " ">>

\* The guards of the while loop's two patterns, at index i (0-based) of lines.
NamePattern(lines, i) ==
    /\ i + 2 < Len(lines)
    /\ startswith(lines[i + 2], ElementLine1)
    /\ startswith(lines[i + 3], ElementLine2)

PairPattern(lines, i) ==
    /\ startswith(lines[i + 1], ElementLine1)
    /\ startswith(lines[i + 2], ElementLine2)

\* A pass that takes three lines for an unnamed pair as well.
SplitStepPairTakesThree(lines, st) ==
    LET i == st.i
    IN IF NamePattern(lines, i)
       THEN [i |-> i + 3,
             sats |-> Append(st.sats, [name |-> lines[i + 1], l1 |-> lines[i + 2],
                                       l2 |-> lines[i + 3]])]
       ELSE IF PairPattern(lines, i)
       THEN [i |-> i + 3,
             sats |-> Append(st.sats, [name |-> SynthName(st.sats),
                                       l1 |-> lines[i + 1], l2 |-> lines[i + 2]])]
       ELSE [i |-> i + 1, sats |-> st.sats]

\* A pass whose skip leaves the index where it is.
SplitStepStalls(lines, st) ==
    LET i == st.i
    IN IF NamePattern(lines, i)
       THEN [i |-> i + 3,
             sats |-> Append(st.sats, [name |-> lines[i + 1], l1 |-> lines[i + 2],
                                       l2 |-> lines[i + 3]])]
       ELSE IF PairPattern(lines, i)
       THEN [i |-> i + 2,
             sats |-> Append(st.sats, [name |-> SynthName(st.sats),
                                       l1 |-> lines[i + 1], l2 |-> lines[i + 2]])]
       ELSE [i |-> i, sats |-> st.sats]

\* One pass of the while loop: the scan state [i, sats] after it.
SplitStep(lines, st) ==
    LET i == st.i
    IN IF NamePattern(lines, i)
       THEN [i |-> i + 3,
             sats |-> Append(st.sats, [name |-> lines[i + 1], l1 |-> lines[i + 2],
                                       l2 |-> lines[i + 3]])]
       ELSE IF PairPattern(lines, i)
       THEN [i |-> i + 2,
             sats |-> Append(st.sats, [name |-> SynthName(st.sats),
                                       l1 |-> lines[i + 1], l2 |-> lines[i + 2]])]
       ELSE [i |-> i + 1, sats |-> st.sats]

\* while i < len(lines) - 1
RECURSIVE SplitLoop(_, _)
SplitLoop(lines, st) ==
    IF st.i < Len(lines) - 1
    THEN CHOOSE r \in {SplitLoop(lines, nx) : nx \in {SplitStep(lines, st)}} : TRUE
    ELSE st

\* parse_tle_lines(text): the list of (name, line1, line2).
parse_tle_lines(text) ==
    SplitLoop(NonBlankLines(text), [i |-> 0, sats |-> <<>>]).sats

(***************************************************************************)
(* utils/tle_parser.py: parse_tle.                                         *)
(*                                                                         *)
(* float(s) of a decimal literal is held exactly, as the record            *)
(* [neg, ip, fp]: the sign, the integer digits without leading zeros and   *)
(* the fraction digits without trailing zeros (a double tells apart every  *)
(* two decimals of a TLE field's width).  Zero is [FALSE, <<>>, <<>>].     *)
(***************************************************************************)

\* s[a:b]: Python's slice clamps to the string's length.
\* Slices whose columns are taken one to the right.
SliceShifted(s, a, b) == SubSeq(s, a + 2, IF b + 1 < Len(s) THEN b + 1 ELSE Len(s))

Slice(s, a, b) == SubSeq(s, a + 1, IF b < Len(s) THEN b ELSE Len(s))

\* line.rstrip("\n")
RECURSIVE rstripNewline(_)
rstripNewline(s) ==
    IF s # <<>> /\ s[Len(s)] = "\n"
    THEN rstripNewline(SubSeq(s, 1, Len(s) - 1))
    ELSE s

Digits == {"0", "1", "2", "3", "4", "5", "6", "7", "8", "9"}

DigitVal(c) == CHOOSE d \in 0..9 : DigitChar(d) = c

IsDigits(s) == \A k \in 1..Len(s) : s[k] \in Digits

RECURSIVE DropLeadingZeros(_)
DropLeadingZeros(s) ==
    IF s # <<>> /\ Head(s) = "0" THEN DropLeadingZeros(Tail(s)) ELSE s

RECURSIVE DropTrailingZeros(_)
DropTrailingZeros(s) ==
    IF s # <<>> /\ s[Len(s)] = "0"
    THEN DropTrailingZeros(SubSeq(s, 1, Len(s) - 1))
    ELSE s

\* The value of a digit string, saturating at cap.
RECURSIVE DigitsToNat(_, _)
DigitsToNat(s, cap) ==
    IF s = <<>> THEN 0
    ELSE LET hi == DigitsToNat(SubSeq(s, 1, Len(s) - 1), cap)
             v == hi * 10 + DigitVal(s[Len(s)])
         IN IF hi >= cap \/ v >= cap THEN cap ELSE v

Signs == {"+", "-"}

\* The sign and the unsigned body of a stripped literal.
Unsigned(t) == IF t # <<>> /\ Head(t) \in Signs THEN Tail(t) ELSE t

IsNegative(t) == t # <<>> /\ Head(t) = "-"

\* int(s): optional whitespace around an optionally signed digit string.
PyInt(s) ==
    LET t == strip(s)
        body == Unsigned(t)
    IN IF body = <<>> \/ ~IsDigits(body)
       THEN [err |-> "ValueError", val |-> 0]
       ELSE [err |-> "",
             val |-> (IF IsNegative(t) THEN -1 ELSE 1) * DigitsToNat(body, 1000000)]

\* The index of the first "." of s, Len(s) + 1 when it has none.
RECURSIVE FirstDot(_, _)
FirstDot(s, k) ==
    IF k > Len(s) \/ s[k] = "." THEN k ELSE FirstDot(s, k + 1)

\* float(s): optional whitespace around an optionally signed decimal literal
\* with at least one digit and at most one point.
PyFloat(s) ==
    LET t == strip(s)
        body == Unsigned(t)
        dot == FirstDot(body, 1)
        ip == SubSeq(body, 1, dot - 1)
        fp == SubSeq(body, dot + 1, Len(body))
    IN IF ~IsDigits(ip) \/ ~IsDigits(fp) \/ (ip = <<>> /\ fp = <<>>)
       THEN [err |-> "ValueError", neg |-> FALSE, ip |-> <<>>, fp |-> <<>>]
       ELSE LET nip == DropLeadingZeros(ip)
                nfp == DropTrailingZeros(fp)
            IN [err |-> "",
                neg |-> IsNegative(t) /\ (nip # <<>> \/ nfp # <<>>),
                ip |-> nip, fp |-> nfp]

\* The first n digits of a fraction, padded with zeros.
PadFraction(fp, n) ==
    [k \in 1..n |-> IF k <= Len(fp) THEN fp[k] ELSE "0"]

\* A parsed decimal as a fixed-point quantity of `scale` units per 1.0
\* (scale a power of ten up to FX), saturating at `cap` whole units.
DecToFx(d, scale, cap) ==
    LET whole == DigitsToNat(d.ip, cap)
        frac == RDiv(DigitsToNat(PadFraction(d.fp, 5), 100000) * scale, 100000)
        mag == IF whole >= cap THEN cap * scale ELSE whole * scale + frac
    IN IF d.neg THEN -mag ELSE mag

\* The largest mean motion (rev/day) and angle (degrees) the fixed-point
\* quantities hold; larger values saturate.
MeanMotionCap == 300

DegreesCap == 200000

\* mu = 398600.4418, in units of 0.01 km^3/s^2.
MU_100 == 39860044

\* n (rad/s) = mean_motion * 2*pi / 86400, in units of 1/(FX*FX) rad/s;
\* mean_motion in FX units.
MeanMotionRadS(mean_motion) == MulDiv(FMul(mean_motion * 2, PI_FX), FX, 86400)

\* Whether a km is at most the cube root of mu / n^2: a * (a*n)^2 <= mu.
CubeAtMost(a, n) ==
    \/ a < 2
    \/ /\ a <= 2147483647 \div n
       /\ LET v == (a * n) \div FX
          IN MulDiv(v, v, FX) <= MulDiv(MU_100, 100, a)

RECURSIVE CubeRootBetween(_, _, _)
CubeRootBetween(n, lo, hi) ==
    IF hi - lo <= 1
    THEN IF CubeAtMost(hi, n) THEN hi ELSE lo
    ELSE LET mid == (lo + hi) \div 2
         IN IF CubeAtMost(mid, n)
            THEN CubeRootBetween(n, mid, hi)
            ELSE CubeRootBetween(n, lo, mid)

\* The largest semi-major axis (km) the model holds.
SmaCap == 1000000

\* sma = (mu / (n_rad_s**2)) ** (1.0/3.0), in whole km; n # 0.
SemiMajorAxis(n) == IF n = 0 THEN SmaCap ELSE CubeRootBetween(Abs(n), 1, SmaCap)

\* float(s) == 0.0 of a parsed decimal.
IsZero(d) == d.ip = <<>> /\ d.fp = <<>>

\* A pivot that sends the year 57 to 2057.
EpochYearPivotOff(yy) == IF yy <= 57 THEN yy + 2000 ELSE yy + 1900

\* Lines 21-24: the 4-digit year of a 2-digit year.
EpochYear(yy) == IF yy < 57 THEN yy + 2000 ELSE yy + 1900

ParseFailure(e) ==
    [err |-> e, satnum |-> <<>>, epoch_year |-> 0,
     epoch_day |-> PyFloat(<<>>), inclination |-> PyFloat(<<>>),
     raan |-> PyFloat(<<>>), eccentricity |-> PyFloat(<<>>),
     argp |-> PyFloat(<<>>), mean_anom |-> PyFloat(<<>>),
     mean_motion_rev_per_day |-> PyFloat(<<>>), sma_km |-> 0]

\* parse_tle(line1, line2): the dictionary, or the exception raised.
parse_tle(line1, line2) ==
    LET l1 == rstripNewline(line1)
        l2 == rstripNewline(line2)
        satnum == strip(Slice(l1, 2, 7))
        yy == PyInt(Slice(l1, 18, 20))
        epoch_day == PyFloat(Slice(l1, 20, 32))
        epoch_year == EpochYear(yy.val)
        inc == PyFloat(Slice(l2, 8, 16))
        raan == PyFloat(Slice(l2, 17, 25))
        e == PyFloat(<<"0", ".">> \o strip(Slice(l2, 26, 33)))
        argp == PyFloat(Slice(l2, 34, 42))
        mean_anom == PyFloat(Slice(l2, 43, 51))
        mean_motion == PyFloat(Slice(l2, 52, 63))
        n_rad_s == MeanMotionRadS(DecToFx(mean_motion, FX, MeanMotionCap))
    IN IF \E r \in {yy, epoch_day, inc, raan, e, argp, mean_anom, mean_motion} :
              r.err # ""
       THEN ParseFailure("ValueError")
       ELSE IF IsZero(mean_motion)
       THEN ParseFailure("ZeroDivisionError")
       ELSE [err |-> "", satnum |-> satnum, epoch_year |-> epoch_year,
             epoch_day |-> epoch_day, inclination |-> inc, raan |-> raan,
             eccentricity |-> e, argp |-> argp, mean_anom |-> mean_anom,
             mean_motion_rev_per_day |-> mean_motion,
             sma_km |-> SemiMajorAxis(n_rad_s)]

(***************************************************************************)
(* utils/propagate.py                                                      *)
(*                                                                         *)
(* A length in km is held in hundredths of a km (KM_FX units per km); an   *)
(* elapsed time is a whole number of seconds.                              *)
(***************************************************************************)

\* Units per km of a float quantity in km.
KM_FX == 100

\* A mean motion taken per sidereal day of 86164 s.
MeanMotionPerSiderealDay(mean_motion_rev_per_day) ==
    MulDiv(FMul(mean_motion_rev_per_day * 2, PI_FX), FX, 86164)

\* mean_motion_revday_to_rad_s: rev/day in FX units to rad/s in units of
\* 1/(FX*FX).
mean_motion_revday_to_rad_s(mean_motion_rev_per_day) ==
    MulDiv(FMul(mean_motion_rev_per_day * 2, PI_FX), FX, 86400)

\* The coefficients with R23 of the opposite sign.
RotationR23Flipped(inc, raan, argp) ==
    [R11 |-> FMul(Cos(raan), Cos(argp)) - FMul(FMul(Sin(raan), Sin(argp)), Cos(inc)),
     R12 |-> FMul(-Cos(raan), Sin(argp)) - FMul(FMul(Sin(raan), Cos(argp)), Cos(inc)),
     R13 |-> FMul(Sin(raan), Sin(inc)),
     R21 |-> FMul(Sin(raan), Cos(argp)) + FMul(FMul(Cos(raan), Sin(argp)), Cos(inc)),
     R22 |-> FMul(-Sin(raan), Sin(argp)) + FMul(FMul(Cos(raan), Cos(argp)), Cos(inc)),
     R23 |-> FMul(Cos(raan), Sin(inc)),
     R31 |-> FMul(Sin(argp), Sin(inc)),
     R32 |-> FMul(Cos(argp), Sin(inc)),
     R33 |-> Cos(inc)]

\* Lines 30-43: the locals R11..R33 from the angles in radians.
Rotation(inc, raan, argp) ==
    LET cos_raan == Cos(raan)
        sin_raan == Sin(raan)
        cos_inc == Cos(inc)
        sin_inc == Sin(inc)
        cos_argp == Cos(argp)
        sin_argp == Sin(argp)
    IN [R11 |-> FMul(cos_raan, cos_argp) - FMul(FMul(sin_raan, sin_argp), cos_inc),
        R12 |-> FMul(-cos_raan, sin_argp) - FMul(FMul(sin_raan, cos_argp), cos_inc),
        R13 |-> FMul(sin_raan, sin_inc),
        R21 |-> FMul(sin_raan, cos_argp) + FMul(FMul(cos_raan, sin_argp), cos_inc),
        R22 |-> FMul(-sin_raan, sin_argp) + FMul(FMul(cos_raan, cos_argp), cos_inc),
        R23 |-> FMul(-cos_raan, sin_inc),
        R31 |-> FMul(sin_argp, sin_inc),
        R32 |-> FMul(cos_argp, sin_inc),
        R33 |-> cos_inc]

\* Lines 45-47: the rotation R applied to the perifocal vector.
Rotated(R, x_pf, y_pf, z_pf) ==
    [err |-> "",
     x |-> MulDiv(x_pf, R.R11, FX) + MulDiv(y_pf, R.R12, FX) + MulDiv(z_pf, R.R13, FX),
     y |-> MulDiv(x_pf, R.R21, FX) + MulDiv(y_pf, R.R22, FX) + MulDiv(z_pf, R.R23, FX),
     z |-> MulDiv(x_pf, R.R31, FX) + MulDiv(y_pf, R.R32, FX) + MulDiv(z_pf, R.R33, FX)]

\* kepler_to_eci on the values of its arguments.
KeplerToEciBody(a_km, e, inc_deg, raan_deg, argp_deg, nu_rad) ==
    LET inc == Radians(inc_deg)
        raan == Radians(raan_deg)
        argp == Radians(argp_deg)
        unused == newtonm(e, 0).err
        p == MulDiv(a_km, FX - FMul(e, e), FX)
        den == FX + FMul(e, Cos(nu_rad))
    IN IF unused # "" THEN [err |-> unused, x |-> 0, y |-> 0, z |-> 0]
       ELSE IF den = 0 THEN [err |-> "ZeroDivisionError", x |-> 0, y |-> 0, z |-> 0]
       ELSE CHOOSE out \in
               {Rotated(R, MulDiv(r_km, Cos(nu_rad), FX),
                        MulDiv(r_km, Sin(nu_rad), FX), 0) :
                   R \in {Rotation(inc, raan, argp)},
                   r_km \in {MulDiv(p, FX, den)}} : TRUE

\* kepler_to_eci(a_km, e, inc_deg, raan_deg, argp_deg, nu_rad): [err, x, y, z].
kepler_to_eci(a_arg, e_arg, inc_arg, raan_arg, argp_arg, nu_arg) ==
    CHOOSE r \in {KeplerToEciBody(a_km, e, inc_deg, raan_deg, argp_deg, nu_rad) :
                    a_km \in {a_arg}, e \in {e_arg}, inc_deg \in {inc_arg},
                    raan_deg \in {raan_arg}, argp_deg \in {argp_arg},
                    nu_rad \in {nu_arg}} : TRUE

\* The body of propagate_kepler's for loop for one dt: [err, x, y, z].
\* el = [a_km, e, inc_deg, raan_deg, argp_deg, mean_anom_deg,
\*       mean_motion_rev_per_day].
PropagateSample(el, dt) ==
    LET n_rad_s == mean_motion_revday_to_rad_s(el.mean_motion_rev_per_day)
        M0 == Radians(el.mean_anom_deg)
        M == (M0 + MulDiv(dt, n_rad_s, FX)) % TWO_PI
    IN CHOOSE r \in
          {IF sol.err # "" THEN [err |-> sol.err, x |-> 0, y |-> 0, z |-> 0]
           ELSE kepler_to_eci(el.a_km, el.e, el.inc_deg, el.raan_deg, el.argp_deg,
                              sol.nu) : sol \in {newtonm(el.e, M)}} : TRUE

\* A pass that reads the first offset whatever the sample.
PropagateStepFirstOffset(el, times, st) ==
    CHOOSE nx \in
        {IF s.err # "" THEN [st EXCEPT !.err = s.err]
         ELSE [k |-> st.k + 1, xs |-> Append(st.xs, s.x), ys |-> Append(st.ys, s.y),
               zs |-> Append(st.zs, s.z), err |-> ""] :
            s \in {PropagateSample(el, times[1])}} : TRUE

\* One pass of the for loop on the loop state st = [k, xs, ys, zs, err]:
\* k samples are done.
PropagateStep(el, times, st) ==
    CHOOSE nx \in
        {IF s.err # "" THEN [st EXCEPT !.err = s.err]
         ELSE [k |-> st.k + 1, xs |-> Append(st.xs, s.x), ys |-> Append(st.ys, s.y),
               zs |-> Append(st.zs, s.z), err |-> ""] :
            s \in {PropagateSample(el, times[st.k + 1])}} : TRUE

PropagateStart == [k |-> 0, xs |-> <<>>, ys |-> <<>>, zs |-> <<>>, err |-> ""]

RECURSIVE PropagateLoop(_, _, _)
PropagateLoop(el, times, st) ==
    IF st.err # "" \/ st.k = Len(times) THEN st
    ELSE CHOOSE r \in {PropagateLoop(el, times, nx) :
                          nx \in {PropagateStep(el, times, st)}} : TRUE

\* propagate_kepler on the values of its arguments.
PropagateKeplerBody(el, times) ==
    CHOOSE r \in
        {IF st.err # "" THEN [err |-> st.err, xs |-> <<>>, ys |-> <<>>, zs |-> <<>>]
         ELSE [err |-> "", xs |-> st.xs, ys |-> st.ys, zs |-> st.zs] :
            st \in {PropagateLoop(el, times, PropagateStart)}} : TRUE

\* propagate_kepler(..., times_seconds_from_epoch): [err, xs, ys, zs].
propagate_kepler(el_arg, times_arg) ==
    CHOOSE r \in {PropagateKeplerBody(el, times) :
                    el \in {el_arg}, times \in {times_arg}} : TRUE

(***************************************************************************)
(* utils/time_utils.py: parse_epoch, and the arithmetic of app.py.         *)
(*                                                                         *)
(* A datetime is held as the whole seconds since 2000-01-01T00:00:00Z.     *)
(***************************************************************************)

\* The largest day of year the fixed-point quantities hold.
DayOfYearCap == 400

\* datetime(year, 1, 1, tzinfo=timezone.utc), for the years 1901..2099.
StartOfYear(year) == (365 * (year - 2000) + (year - 1997) \div 4) * 86400

\* parse_epoch(year, day_of_year)
parse_epoch(year, day_of_year) ==
    StartOfYear(year) + MulDiv(DecToFx(day_of_year, FX, DayOfYearCap) - FX, 86400, FX)

\* The element record propagate_kepler is passed: app.py lines 81-87, 132.
ElementsOf(data) ==
    [a_km |-> data.sma_km * KM_FX,
     e |-> DecToFx(data.eccentricity, FX, 1),
     inc_deg |-> DecToFx(data.inclination, DEG_FX, DegreesCap),
     raan_deg |-> DecToFx(data.raan, DEG_FX, DegreesCap),
     argp_deg |-> DecToFx(data.argp, DEG_FX, DegreesCap),
     mean_anom_deg |-> DecToFx(data.mean_anom, DEG_FX, DegreesCap),
     mean_motion_rev_per_day |->
         DecToFx(data.mean_motion_rev_per_day, FX, MeanMotionCap)]

\* Lines 95-100: the true anomaly delta_t_sec after the epoch.
TrueAnomalyNow(el, delta_t_sec) ==
    LET n_rad_s == MeanMotionRadS(el.mean_motion_rev_per_day)
        M0_rad == Radians(el.mean_anom_deg)
        M_now == (M0_rad + MulDiv(delta_t_sec, n_rad_s, FX)) % TWO_PI
    IN solve_true_anomaly(el.e, Degrees(M_now))

\* Offsets that start one step in: range(step, total_seconds + 1, step).
TimesSecondsFromStep(days, step) ==
    [j \in 1..(TotalSeconds(days) \div step) |-> j * step]

\* list(range(0, total_seconds + 1, int(sample_seconds)))
TimesSeconds(days, step) ==
    [j \in 1..(TotalSeconds(days) \div step + 1) |-> (j - 1) * step]

\* names.index(chosen): the first index that holds the name.
IndexOf(names, chosen) ==
    CHOOSE j \in 1..Len(names) :
        names[j] = chosen /\ \A k \in 1..(j - 1) : names[k] # chosen

(***************************************************************************)
(* State.                                                                  *)
(***************************************************************************)
VARIABLES
    ecc,            \* solve_true_anomaly: the eccentricity passed
    M_deg,          \* solve_true_anomaly: the mean anomaly passed, in degrees
    anomOut,        \* solve_true_anomaly: Pending, or what the call returned
    start_dt,       \* build_time_array: the start datetime passed
    numdays,        \* build_time_array: the number of days passed
    sample_seconds, \* build_time_array: the sample interval passed
    gridOut,        \* build_time_array: Pending, or the list returned
    rawLines,       \* parse_tle_lines: the lines the text passed is made of
    text,           \* parse_tle_lines: the text passed
    lines,          \* parse_tle_lines: the local list of stripped lines
    scan,           \* parse_tle_lines: the locals i and sats
    splitPc,        \* parse_tle_lines: "start", "scan" (in the loop), "done"
    line1,          \* parse_tle: the first line passed
    line2,          \* parse_tle: the second line passed
    parseOut,       \* parse_tle: Pending, or the outcome of the call
    elems,          \* propagate_kepler: the orbital elements passed
    times,          \* propagate_kepler: the list of offsets passed
    timesIn,        \* propagate_kepler: the list as it was when passed
    loop,           \* propagate_kepler: the loop's position and xs, ys, zs
    propPc,         \* propagate_kepler: "start", "loop", "returned", "raised"
    widgets,        \* app.py: tle_text, debug, do_visualize, numdays, sample_seconds
    now_dt,         \* app.py: what datetime.now(timezone.utc) returns
    locals,         \* app.py: the script's variables assigned so far
    appPc,          \* app.py: the statement the script run is at
    events,         \* app.py: what the run has done so far, in order
    n_ecc,          \* newtonm: the eccentricity passed, in units of 1/FX
    n_excess,       \* newtonm: what the eccentricity has beyond that, in 1e-9
    n_m,            \* newtonm: the mean anomaly passed
    n_loop,         \* newtonm: the local E and the passes of the loop so far
    n_pc,           \* newtonm: "start", "loop", "done"
    n_out,          \* newtonm: Pending, or the outcome of the call
    angles,         \* kepler_to_eci: inc_deg, raan_deg, argp_deg, nu_deg passed
    rot,            \* kepler_to_eci: Pending, or the locals R11..R33
    eci             \* kepler_to_eci: Pending, or the outcome of the call

anomVars == <<ecc, M_deg, anomOut>>

gridVars == <<start_dt, numdays, sample_seconds, gridOut>>

splitVars == <<rawLines, text, lines, scan, splitPc>>

parseVars == <<line1, line2, parseOut>>

propVars == <<elems, times, timesIn, loop, propPc>>

appVars == <<widgets, now_dt, locals, appPc, events>>

newtonVars == <<n_ecc, n_excess, n_m, n_loop, n_pc, n_out>>

rotVars == <<angles, rot, eci>>

vars == <<anomVars, gridVars, splitVars, parseVars, propVars, appVars,
          newtonVars, rotVars>>

Pending == [err |-> "pending"]

\* The components a specification does not exercise stay idle.
AnomalyIdle == ecc = 0 /\ M_deg = 0 /\ anomOut = Pending

GridIdle == start_dt = 0 /\ numdays = 0 /\ sample_seconds = 0 /\ gridOut = Pending

SplitIdle ==
    /\ rawLines = <<>>
    /\ text = <<>>
    /\ lines = <<>>
    /\ scan = [i |-> 0, sats |-> <<>>]
    /\ splitPc = "idle"

ParseIdle == line1 = <<>> /\ line2 = <<>> /\ parseOut = Pending

PropIdle ==
    /\ elems = Pending
    /\ times = <<>>
    /\ timesIn = <<>>
    /\ loop = PropagateStart
    /\ propPc = "idle"

NoLocals ==
    [triples |-> <<>>, picked |-> 0, name |-> <<>>, l1 |-> <<>>, l2 |-> <<>>,
     data |-> Pending, epoch_dt |-> 0, delta_t_sec |-> 0,
     true_anom_deg_now |-> Pending, times_seconds |-> <<>>, track |-> Pending]

NewtonIdle ==
    /\ n_ecc = 0
    /\ n_excess = 0
    /\ n_m = 0
    /\ n_loop = [E |-> 0, iters |-> 0, err |-> "", met |-> FALSE, done |-> FALSE]
    /\ n_pc = "idle"
    /\ n_out = Pending

RotIdle ==
    /\ angles = [inc_deg |-> 0, raan_deg |-> 0, argp_deg |-> 0, nu_deg |-> 0]
    /\ rot = Pending
    /\ eci = Pending

AppIdle ==
    /\ widgets = Pending
    /\ now_dt = 0
    /\ locals = NoLocals
    /\ appPc = "idle"
    /\ events = <<>>

(***************************************************************************)
(* The anomaly solver called on bounded inputs.                            *)
(***************************************************************************)

\* Whole turns of mean anomaly on either side of zero.
MaxTurns == 2

EccInputs == {0, 1000, 5000, 7999, 8000, 9900, FX, 12000, 15000, 30000}

MdegInputs == {15 * DEG_FX * k : k \in (-24 * MaxTurns)..(24 * MaxTurns)}
              \cup {17999, 18001, -17999, 1, -1}

InitAnomaly ==
    /\ ecc \in EccInputs
    /\ M_deg \in MdegInputs
    /\ anomOut = Pending
    /\ GridIdle /\ SplitIdle /\ ParseIdle /\ PropIdle /\ AppIdle
    /\ NewtonIdle /\ RotIdle

SolveTrueAnomaly ==
    /\ anomOut = Pending
    /\ anomOut' = solve_true_anomaly(ecc, M_deg)
    /\ UNCHANGED <<ecc, M_deg, gridVars, splitVars, parseVars, propVars,
                   appVars,
                   newtonVars, rotVars>>

NextAnomaly == SolveTrueAnomaly

SpecAnomaly == InitAnomaly /\ [][NextAnomaly]_vars

(***************************************************************************)
(* newtonm called on bounded inputs, one pass of its loop at a time.       *)
(***************************************************************************)

NewtonEccInputs == {0, 1000, 5000, 7999, 8000, 9000, 9900, FX, 12000, 15000}

\* What an eccentricity of 1 may have beyond 1 without reaching 1 + small.
ExcessInputs == {0, 5, SmallNano}

\* Mean anomalies of [0, 2 pi).
NewtonMInputs ==
    {0, 1, 100, 5000, HALF_PI, 20000, PI_FX, 40000, 3 * HALF_PI, 62000,
     TWO_PI - 1}

InitNewton ==
    /\ n_ecc \in NewtonEccInputs
    /\ n_excess \in (IF n_ecc = FX THEN ExcessInputs ELSE {0})
    /\ n_m \in NewtonMInputs
    /\ n_loop = NewtonGuess(0, 0)
    /\ n_pc = "start"
    /\ n_out = Pending
    /\ AnomalyIdle /\ GridIdle /\ SplitIdle /\ ParseIdle /\ PropIdle /\ AppIdle
    /\ RotIdle

NewtonRest ==
    <<anomVars, gridVars, splitVars, parseVars, propVars, appVars, rotVars>>

\* Lines 16-21: the hyperbolic branch returns at once.
NewtonHyperbolic ==
    /\ n_pc = "start"
    /\ Hyperbolic(n_ecc, n_excess)
    /\ n_out' = HyperbolicAnomaly(n_ecc, FDiv(n_m, n_ecc - FX))
    /\ n_pc' = "done"
    /\ UNCHANGED <<n_ecc, n_excess, n_m, n_loop, NewtonRest>>

\* Line 25: the initial guess.
NewtonStart ==
    /\ n_pc = "start"
    /\ ~Hyperbolic(n_ecc, n_excess)
    /\ n_loop' = NewtonGuess(n_ecc, n_m)
    /\ n_pc' = "loop"
    /\ UNCHANGED <<n_ecc, n_excess, n_m, n_out, NewtonRest>>

\* Lines 26-32: one pass of the for loop.
NewtonUpdate ==
    /\ n_pc = "loop"
    /\ ~n_loop.done
    /\ n_loop.iters < numiter
    /\ n_loop' = NewtonStep(n_ecc, n_m, n_loop)
    /\ UNCHANGED <<n_ecc, n_excess, n_m, n_pc, n_out, NewtonRest>>

\* Lines 35-38: after the break or the last pass, or the exception leaving.
NewtonReturn ==
    /\ n_pc = "loop"
    /\ n_loop.done \/ n_loop.iters = numiter
    /\ n_out' = TrueFromEccentricNear(n_ecc, n_excess, n_loop)
    /\ n_pc' = "done"
    /\ UNCHANGED <<n_ecc, n_excess, n_m, n_loop, NewtonRest>>

NextNewton == NewtonHyperbolic \/ NewtonStart \/ NewtonUpdate \/ NewtonReturn

SpecNewton == InitNewton /\ [][NextNewton]_vars

(***************************************************************************)
(* kepler_to_eci called on a circular orbit at bounded angles.             *)
(***************************************************************************)

\* Angles in DEG_FX units: the multiples of 90 degrees and two others.
AngleInputs == {0, 90 * DEG_FX, 180 * DEG_FX, 270 * DEG_FX, 45 * DEG_FX, 5164}

RightAngles == {0, 90 * DEG_FX, 180 * DEG_FX, 270 * DEG_FX}

\* The semi-major axis of the orbit rotated.
RotatedAxis == 7000 * KM_FX

InitRot ==
    /\ angles \in [inc_deg : AngleInputs, raan_deg : AngleInputs,
                    argp_deg : AngleInputs, nu_deg : {0, 90 * DEG_FX, 5164}]
    /\ rot = Pending
    /\ eci = Pending
    /\ AnomalyIdle /\ GridIdle /\ SplitIdle /\ ParseIdle /\ PropIdle /\ AppIdle
    /\ NewtonIdle

RotRest ==
    <<anomVars, gridVars, splitVars, parseVars, propVars, appVars, newtonVars>>

\* Lines 30-43: the coefficients.
EciCoefficients ==
    /\ rot = Pending
    /\ rot' = Rotation(Radians(angles.inc_deg), Radians(angles.raan_deg),
                       Radians(angles.argp_deg))
    /\ UNCHANGED <<angles, eci, RotRest>>

\* Lines 45-48: the position returned.
EciReturn ==
    /\ rot # Pending
    /\ eci = Pending
    /\ eci' = kepler_to_eci(RotatedAxis, 0, angles.inc_deg, angles.raan_deg,
                            angles.argp_deg, Radians(angles.nu_deg))
    /\ UNCHANGED <<angles, rot, RotRest>>

NextRot == EciCoefficients \/ EciReturn

SpecRot == InitRot /\ [][NextRot]_vars

(***************************************************************************)
(* The time grid built for bounded inputs.                                 *)
(***************************************************************************)

\* The longest duration drawn, in thousandths of a day.
MaxMilliDays == 40

NumdaysInputs == (1..MaxMilliDays) \cup {DAY_FX}

SampleInputs == {10, 30, 60, 100, 600, 3600}

InitGrid ==
    /\ start_dt \in {0, 500}
    /\ numdays \in NumdaysInputs
    /\ sample_seconds \in SampleInputs
    /\ gridOut = Pending
    /\ (numdays = DAY_FX => sample_seconds >= 600)
    /\ AnomalyIdle /\ SplitIdle /\ ParseIdle /\ PropIdle /\ AppIdle
    /\ NewtonIdle /\ RotIdle

BuildTimeArray ==
    /\ gridOut = Pending
    /\ gridOut' = [err |-> "",
                   list |-> build_time_array(start_dt, numdays, sample_seconds)]
    /\ UNCHANGED <<start_dt, numdays, sample_seconds, anomVars, splitVars,
                   parseVars, propVars, appVars,
                   newtonVars, rotVars>>

NextGrid == BuildTimeArray

SpecGrid == InitGrid /\ [][NextGrid]_vars

(***************************************************************************)
(* The splitter run pass by pass on bounded texts.                         *)
(***************************************************************************)

\* The most lines a text drawn holds.
MaxLines == 3

\* The lines texts are made of: a blank line, a padded name, a bare name,
\* the two element lines, an element prefix with nothing after it, and an
\* indented element line.
RawLineInputs ==
    { <<>>, <<" ", "A", " ">>, <<"B">>, <<"1", " ", "A">>, <<"2", " ", "A">>,
      <<"1", " ">>, <<" ", "1", " ", "C">> }

RECURSIVE SeqsUpTo(_, _)
SeqsUpTo(S, n) ==
    IF n = 0 THEN {<<>>}
    ELSE LET shorter == SeqsUpTo(S, n - 1)
         IN shorter \cup {Append(q, x) : q \in {r \in shorter : Len(r) = n - 1}, x \in S}

\* "\n".join(ls)
RECURSIVE JoinLines(_)
JoinLines(ls) ==
    IF ls = <<>> THEN <<>>
    ELSE IF Len(ls) = 1 THEN ls[1]
    ELSE ls[1] \o <<"\n">> \o JoinLines(Tail(ls))

InitSplit ==
    /\ rawLines \in SeqsUpTo(RawLineInputs, MaxLines)
    /\ text \in {JoinLines(rawLines), JoinLines(rawLines) \o <<"\n">>}
    /\ lines = <<>>
    /\ scan = [i |-> 0, sats |-> <<>>]
    /\ splitPc = "start"
    /\ AnomalyIdle /\ GridIdle /\ ParseIdle /\ PropIdle /\ AppIdle
    /\ NewtonIdle /\ RotIdle

SplitBegin ==
    /\ splitPc = "start"
    /\ lines' = NonBlankLines(text)
    /\ splitPc' = "scan"
    /\ UNCHANGED <<rawLines, text, scan, anomVars, gridVars, parseVars,
                   propVars, appVars,
                   newtonVars, rotVars>>

InLoop == splitPc = "scan" /\ scan.i < Len(lines) - 1

SplitPass ==
    /\ scan' = SplitStep(lines, scan)
    /\ UNCHANGED <<rawLines, text, lines, splitPc, anomVars, gridVars,
                   parseVars, propVars, appVars,
                   newtonVars, rotVars>>

SplitName == InLoop /\ NamePattern(lines, scan.i) /\ SplitPass

SplitPair ==
    /\ InLoop
    /\ ~NamePattern(lines, scan.i)
    /\ PairPattern(lines, scan.i)
    /\ SplitPass

SplitSkip ==
    /\ InLoop
    /\ ~NamePattern(lines, scan.i)
    /\ ~PairPattern(lines, scan.i)
    /\ SplitPass

SplitReturn ==
    /\ splitPc = "scan"
    /\ ~(scan.i < Len(lines) - 1)
    /\ splitPc' = "done"
    /\ UNCHANGED <<rawLines, text, lines, scan, anomVars, gridVars,
                   parseVars, propVars, appVars,
                   newtonVars, rotVars>>

NextSplit == SplitBegin \/ SplitName \/ SplitPair \/ SplitSkip \/ SplitReturn

SpecSplit == InitSplit /\ [][NextSplit]_vars

\* The kinds of line a text is made of: blank, stray, first and second
\* element line.
LineKinds == {<<" ">>, <<"B">>, <<"1", " ", "A">>, <<"2", " ", "A">>}

\* Texts of up to two lines more, of lines that need no stripping.
InitScan ==
    /\ rawLines \in SeqsUpTo(LineKinds, MaxLines + 2)
    /\ text = JoinLines(rawLines)
    /\ lines = <<>>
    /\ scan = [i |-> 0, sats |-> <<>>]
    /\ splitPc = "start"
    /\ AnomalyIdle /\ GridIdle /\ ParseIdle /\ PropIdle /\ AppIdle
    /\ NewtonIdle /\ RotIdle

SpecScan == InitScan /\ [][NextSplit]_vars

\* The splitter before it is called, and the call with its text.
InitSplitLive ==
    SplitIdle /\ AnomalyIdle /\ GridIdle /\ ParseIdle /\ PropIdle /\ AppIdle
    /\ NewtonIdle /\ RotIdle

SplitCall ==
    /\ splitPc = "idle"
    /\ rawLines' \in SeqsUpTo(LineKinds, MaxLines + 1)
    /\ text' \in {JoinLines(rawLines'), JoinLines(rawLines') \o <<"\n">>}
    /\ splitPc' = "start"
    /\ UNCHANGED <<lines, scan, anomVars, gridVars, parseVars, propVars,
                   appVars,
                   newtonVars, rotVars>>

NextSplitLive == SplitCall \/ NextSplit

\* The call runs on: a pass that can be taken is taken.
SpecSplitLive ==
    InitSplitLive /\ [][NextSplitLive]_vars /\ WF_vars(NextSplitLive)

(***************************************************************************)
(* The element parser called on the reference TLE, whole, cut short or     *)
(* with characters replaced.                                               *)
(***************************************************************************)

\* The reference ISS TLE.
IssLine1 ==
    <<"1", " ", "2", "5", "5", "4", "4", "U", " ", "9", "8", "0", "6", "7",
      "A", " ", " ", " ", "2", "0", "0", "4", "5", ".", "1", "8", "5", "8",
      "7", "0", "7", "3", " ", " ", ".", "0", "0", "0", "0", "0", "8", "4",
      "2", " ", " ", "0", "0", "0", "0", "0", "-", "0", " ", " ", "2", "3",
      "6", "9", "4", "-", "4", " ", "0", " ", " ", "9", "9", "9", "6">>

IssLine2 ==
    <<"2", " ", "2", "5", "5", "4", "4", " ", " ", "5", "1", ".", "6", "4",
      "4", "4", " ", " ", "2", "3", ".", "2", "0", "6", "2", " ", "0", "0",
      "0", "5", "7", "0", "0", " ", " ", "8", "2", ".", "6", "5", "7", "9",
      " ", " ", "8", "3", ".", "8", "4", "8", "1", " ", "1", "5", ".", "4",
      "9", "2", "8", "5", "2", "7", "4", "2", "1", "6", "5", "6", "7">>

\* The same second line with a mean motion of zero.
ZeroMotionLine2 ==
    <<"2", " ", "2", "5", "5", "4", "4", " ", " ", "5", "1", ".", "6", "4",
      "4", "4", " ", " ", "2", "3", ".", "2", "0", "6", "2", " ", "0", "0",
      "0", "5", "7", "0", "0", " ", " ", "8", "2", ".", "6", "5", "7", "9",
      " ", " ", "8", "3", ".", "8", "4", "8", "1", " ", "0", "0", ".", "0",
      "0", "0", "0", "0", "0", "0", "0", "2", "1", "6", "5", "6", "7">>

SubstChars == {"0", "9", " ", ".", "-", "X"}

\* s with the character at 0-based column c replaced by ch.
Subst(s, c, ch) == [s EXCEPT ![c + 1] = ch]

Prefixes(s) == {SubSeq(s, 1, n) : n \in 0..Len(s)}

Line1Inputs ==
    Prefixes(IssLine1)
    \cup {Subst(IssLine1, c, ch) : c \in 0..(Len(IssLine1) - 1), ch \in SubstChars}
    \cup {Subst(Subst(IssLine1, 18, DigitChar(yy \div 10)), 19, DigitChar(yy % 10)) :
            yy \in 0..99}
    \cup {IssLine1 \o <<"\n">>}

Line2Inputs ==
    Prefixes(IssLine2)
    \cup {Subst(IssLine2, c, ch) : c \in 0..(Len(IssLine2) - 1), ch \in SubstChars}
    \cup {ZeroMotionLine2, IssLine2 \o <<"\n">>}

InitParse ==
    /\ \/ line1 \in Line1Inputs /\ line2 = IssLine2
       \/ line1 = IssLine1 /\ line2 \in Line2Inputs
    /\ parseOut = Pending
    /\ AnomalyIdle /\ GridIdle /\ SplitIdle /\ PropIdle /\ AppIdle
    /\ NewtonIdle /\ RotIdle

ParseTle ==
    /\ parseOut = Pending
    /\ parseOut' = parse_tle(line1, line2)
    /\ UNCHANGED <<line1, line2, anomVars, gridVars, splitVars, propVars,
                   appVars,
                   newtonVars, rotVars>>

NextParse == ParseTle

SpecParse == InitParse /\ [][NextParse]_vars

(***************************************************************************)
(* The propagator run sample by sample on bounded inputs.                  *)
(***************************************************************************)

\* The most offsets a list drawn holds.
MaxSamples == 2

Elements(e, inc, raan, argp, M0, mm) ==
    [a_km |-> 7000 * KM_FX, e |-> e, inc_deg |-> inc, raan_deg |-> raan,
     argp_deg |-> argp, mean_anom_deg |-> M0, mean_motion_rev_per_day |-> mm]

\* Circular, elliptical, parabolic (e = 1) and hyperbolic orbits at 15 and
\* at 2 revolutions a day.
ElementInputs ==
    { Elements(0, 5164, 2321, 8266, 8385, 15 * FX),
      Elements(0, 0, 0, 0, 0, 15 * FX),
      Elements(0, 9000, 4500, 0, 1234, 2 * FX),
      Elements(0, 5164, 2321, 8266, 35990, 2 * FX),
      Elements(1000, 5164, 2321, 8266, 8385, 15 * FX),
      Elements(FX, 5164, 2321, 8266, 8385, 15 * FX),
      Elements(15000, 5164, 2321, 8266, 8385, 15 * FX) }

\* 86400 / meanMotion: the period in seconds.
Period(mm) == RDiv(86400 * FX, mm)

StartOffsets == {0, 5}

OffsetInputs ==
    StartOffsets
    \cup {t + Period(15 * FX) : t \in StartOffsets}
    \cup {t + Period(2 * FX) : t \in StartOffsets}

InitProp ==
    /\ elems \in ElementInputs
    /\ times \in SeqsUpTo(OffsetInputs, MaxSamples)
    /\ timesIn = times
    /\ loop = PropagateStart
    /\ propPc = "start"
    /\ AnomalyIdle /\ GridIdle /\ SplitIdle /\ ParseIdle /\ AppIdle
    /\ NewtonIdle /\ RotIdle

PropBegin ==
    /\ propPc = "start"
    /\ propPc' = "loop"
    /\ UNCHANGED <<elems, times, timesIn, loop, anomVars, gridVars,
                   splitVars, parseVars, appVars,
                   newtonVars, rotVars>>

PropSample ==
    /\ propPc = "loop"
    /\ loop.k < Len(times)
    /\ loop' = PropagateStep(elems, times, loop)
    /\ propPc' = IF loop'.err # "" THEN "raised" ELSE "loop"
    /\ UNCHANGED <<elems, times, timesIn, anomVars, gridVars, splitVars,
                   parseVars, appVars,
                   newtonVars, rotVars>>

PropReturn ==
    /\ propPc = "loop"
    /\ loop.k = Len(times)
    /\ propPc' = "returned"
    /\ UNCHANGED <<elems, times, timesIn, loop, anomVars, gridVars,
                   splitVars, parseVars, appVars,
                   newtonVars, rotVars>>

NextProp == PropBegin \/ PropSample \/ PropReturn

SpecProp == InitProp /\ [][NextProp]_vars

(***************************************************************************)
(* app.py: one run of the script, statement by statement.                  *)
(***************************************************************************)

IssName == <<"I", "S", "S">>

\* Line 2 with a letter in the inclination, and with an eccentricity of
\* 0.5005700.
LetterLine2 == Subst(IssLine2, 9, "X")

EccentricLine2 == Subst(IssLine2, 26, "5")

\* No text, a blank text, a name alone, a satellite with and without its
\* name, a satellite whose line 2 does not parse, one with a mean motion of
\* zero, two satellites of the same name, two of different names, and a
\* satellite whose line 1 is cut short.
TextInputs ==
    { <<>>,
      <<" ", "\n">>,
      IssName,
      JoinLines(<<IssName, IssLine1, IssLine2>>),
      JoinLines(<<IssLine1, IssLine2>>),
      JoinLines(<<IssName, IssLine1, LetterLine2>>),
      JoinLines(<<IssLine1, ZeroMotionLine2>>),
      JoinLines(<<IssName, IssLine1, IssLine2, IssName, IssLine1, LetterLine2>>),
      JoinLines(<<IssName, IssLine1, EccentricLine2, <<"B">>, IssLine1, IssLine2>>),
      JoinLines(<<SubSeq(IssLine1, 1, 25), IssLine2>>) }

\* The slider's days, in DAY_FX units, and the sample intervals drawn.
NumdaysChoices == {100, 200}

SampleChoices == {1800, 3600}

NowInputs == {StartOfYear(2020) + 4000000, StartOfYear(2021) + 4000000}

Init ==
    /\ widgets \in [tle_text : TextInputs, debug : BOOLEAN, do_visualize : BOOLEAN,
                    numdays : NumdaysChoices, sample_seconds : SampleChoices]
    /\ now_dt \in NowInputs
    /\ locals = NoLocals
    /\ appPc = "input"
    /\ events = <<>>
    /\ AnomalyIdle /\ GridIdle /\ SplitIdle /\ ParseIdle /\ PropIdle
    /\ NewtonIdle /\ RotIdle

Others == <<anomVars, gridVars, splitVars, parseVars, propVars, newtonVars,
            rotVars>>

\* Lines 58-60: nothing pasted or uploaded.
AppNoInput ==
    /\ appPc = "input"
    /\ strip(widgets.tle_text) = <<>>
    /\ events' = Append(events, "info")
    /\ appPc' = "stopped"
    /\ UNCHANGED <<widgets, now_dt, locals, Others>>

\* Lines 63-66: the text holds no TLE.
AppNoTle ==
    /\ appPc = "input"
    /\ strip(widgets.tle_text) # <<>>
    /\ parse_tle_lines(widgets.tle_text) = <<>>
    /\ events' = Append(events, "error")
    /\ appPc' = "stopped"
    /\ UNCHANGED <<widgets, now_dt, locals, Others>>

\* Line 63: the text holds at least one TLE.
AppSplit ==
    /\ appPc = "input"
    /\ strip(widgets.tle_text) # <<>>
    /\ parse_tle_lines(widgets.tle_text) # <<>>
    /\ locals' = [locals EXCEPT !.triples = parse_tle_lines(widgets.tle_text)]
    /\ events' = Append(events, "split")
    /\ appPc' = "select"
    /\ UNCHANGED <<widgets, now_dt, Others>>

\* Lines 69-75: the satellite chosen in the select box, or the only one.
\* The user selects the entry at position picked of the box, and the box
\* returns the name that entry shows.
AppSelect ==
    /\ appPc = "select"
    /\ \E picked \in 1..Len(locals.triples) :
          LET names == [j \in 1..Len(locals.triples) |-> locals.triples[j].name]
              chosen == names[picked]
              idx == IF Len(locals.triples) > 1 THEN IndexOf(names, chosen) ELSE 1
          IN locals' = [locals EXCEPT !.picked = picked,
                                      !.name = locals.triples[idx].name,
                                      !.l1 = locals.triples[idx].l1,
                                      !.l2 = locals.triples[idx].l2]
    /\ events' = Append(events, "select")
    /\ appPc' = "parse"
    /\ UNCHANGED <<widgets, now_dt, Others>>

\* A parse whose failure is swallowed: the script goes on.
AppParseContinues ==
    /\ appPc = "parse"
    /\ locals' = [locals EXCEPT !.data = parse_tle(locals.l1, locals.l2)]
    /\ events' = Append(events, IF locals'.data.err # "" THEN "parse_failed"
                                ELSE "parse_ok")
    /\ appPc' = "epoch"
    /\ UNCHANGED <<widgets, now_dt, Others>>

\* Line 78: parse_tle returns the elements, or its exception ends the run.
AppParse ==
    /\ appPc = "parse"
    /\ locals' = [locals EXCEPT !.data = parse_tle(locals.l1, locals.l2)]
    /\ events' = Append(events, IF locals'.data.err # "" THEN "parse_failed"
                                ELSE "parse_ok")
    /\ appPc' = IF locals'.data.err # "" THEN "failed" ELSE "epoch"
    /\ UNCHANGED <<widgets, now_dt, Others>>

\* Lines 89-91: the epoch and the time since.
AppEpoch ==
    /\ appPc = "epoch"
    /\ locals' = [locals EXCEPT
                    !.epoch_dt = parse_epoch(locals.data.epoch_year,
                                             locals.data.epoch_day),
                    !.delta_t_sec = now_dt - parse_epoch(locals.data.epoch_year,
                                                         locals.data.epoch_day)]
    /\ events' = Append(events, "epoch")
    /\ appPc' = "anomaly"
    /\ UNCHANGED <<widgets, now_dt, Others>>

\* Lines 95-100: the true anomaly now.
AppTrueAnomaly ==
    /\ appPc = "anomaly"
    /\ locals' = [locals EXCEPT
                    !.true_anom_deg_now = TrueAnomalyNow(ElementsOf(locals.data),
                                                         locals.delta_t_sec)]
    /\ events' = Append(events, IF locals'.true_anom_deg_now.err # ""
                                THEN "anomaly_failed" ELSE "true_anomaly")
    /\ appPc' = IF locals'.true_anom_deg_now.err # "" THEN "failed" ELSE "display"
    /\ UNCHANGED <<widgets, now_dt, Others>>

\* Lines 103-127: the cards, the debug block, and the visualization test.
AppDisplay ==
    /\ appPc = "display"
    /\ events' = IF widgets.debug THEN events \o <<"display", "debug">>
                 ELSE Append(events, "display")
    /\ appPc' = IF widgets.do_visualize THEN "grid" ELSE "done"
    /\ UNCHANGED <<widgets, now_dt, locals, Others>>

\* Lines 130-131: the offsets to propagate to.
AppGrid ==
    /\ appPc = "grid"
    /\ locals' = [locals EXCEPT
                    !.times_seconds = TimesSeconds(widgets.numdays,
                                                   widgets.sample_seconds)]
    /\ events' = Append(events, "grid")
    /\ appPc' = "propagate"
    /\ UNCHANGED <<widgets, now_dt, Others>>

\* Line 132: propagate_kepler returns the track, or its exception ends the run.
AppPropagate ==
    /\ appPc = "propagate"
    /\ locals' = [locals EXCEPT
                    !.track = propagate_kepler(ElementsOf(locals.data),
                                               locals.times_seconds)]
    /\ events' = Append(events, IF locals'.track.err # "" THEN "propagate_failed"
                                ELSE "propagate")
    /\ appPc' = IF locals'.track.err # "" THEN "failed" ELSE "render"
    /\ UNCHANGED <<widgets, now_dt, Others>>

\* Line 135: the track is handed to build_3d_earth_orbit.
AppRender ==
    /\ appPc = "render"
    /\ events' = Append(events, "render")
    /\ appPc' = "done"
    /\ UNCHANGED <<widgets, now_dt, locals, Others>>

Next ==
    \/ AppNoInput
    \/ AppNoTle
    \/ AppSplit
    \/ AppSelect
    \/ AppParse
    \/ AppEpoch
    \/ AppTrueAnomaly
    \/ AppDisplay
    \/ AppGrid
    \/ AppPropagate
    \/ AppRender

Spec == Init /\ [][Next]_vars

(***************************************************************************)
(* solve_true_anomaly: the interval of the value returned.                 *)
(***************************************************************************)

\* C1 (as the specification states it): every value solve_true_anomaly
\* returns lies in (-180, 180], so it is never -180 and may be +180.  The
\* code's wrap ((deg + 180) % 360) - 180 sends +180 to -180: the formula
\* fails for ecc = 0, M_deg = 180.
C1_OutputInLeftOpenInterval ==
    anomOut.err = "" =>
        /\ anomOut.deg > -180 * DEG_FX
        /\ anomOut.deg <= 180 * DEG_FX

(***************************************************************************)
(* parse_tle_lines: one satellite with and without a name line.            *)
(***************************************************************************)

\* The text is a name line, a line starting "1 " and a line starting "2 ".
NamedText ==
    /\ Len(rawLines) = 3
    /\ startswith(rawLines[2], ElementLine1)
    /\ startswith(rawLines[3], ElementLine2)

\* The text is a line starting "1 " and a line starting "2 ".
BareText ==
    /\ Len(rawLines) = 2
    /\ startswith(rawLines[1], ElementLine1)
    /\ startswith(rawLines[2], ElementLine2)

\* The line starts with the prefix once the whitespace around it is removed.
StartsStripped(ln, prefix) ==
    \E k \in 0..Len(ln) :
        /\ \A j \in 1..k : ln[j] \in Whitespace
        /\ Len(ln) >= k + Len(prefix)
        /\ SubSeq(ln, k + 1, k + Len(prefix)) = prefix
        /\ \E j \in (k + Len(prefix))..Len(ln) : ln[j] \notin Whitespace

\* nm is ln without the whitespace before and after it; nm is not empty.
IsStripped(ln, nm) ==
    /\ nm # <<>>
    /\ nm[1] \notin Whitespace
    /\ nm[Len(nm)] \notin Whitespace
    /\ \E k \in 0..Len(ln) :
        /\ Len(ln) >= k + Len(nm)
        /\ SubSeq(ln, k + 1, k + Len(nm)) = nm
        /\ \A j \in (1..k) \cup ((k + Len(nm) + 1)..Len(ln)) : ln[j] \in Whitespace

\* The same two shapes, the prefixes read past leading whitespace and
\* followed by more than whitespace.
NamedTextStripped ==
    /\ Len(rawLines) = 3
    /\ \E j \in 1..Len(rawLines[1]) : rawLines[1][j] \notin Whitespace
    /\ StartsStripped(rawLines[2], ElementLine1)
    /\ StartsStripped(rawLines[3], ElementLine2)

BareTextStripped ==
    /\ Len(rawLines) = 2
    /\ StartsStripped(rawLines[1], ElementLine1)
    /\ StartsStripped(rawLines[2], ElementLine2)

Sat1 == <<"S", "A", "T", "_", "1">>

\* C2 (as the specification states it): the name of the one triple is the
\* name line character for character, and two element lines alone give one
\* triple named SAT_1.
C2_NameVerbatim ==
    splitPc = "done" =>
        /\ NamedText =>
              Len(scan.sats) = 1 /\ scan.sats[1].name = rawLines[1]
        /\ BareText =>
              Len(scan.sats) = 1 /\ scan.sats[1].name = Sat1

\* C2 (amended): when the name line is not blank and the two element lines
\* start with "1 " and "2 " once the whitespace around them is removed, the
\* result is exactly one triple whose name is the name line without its
\* leading and trailing whitespace; two such element lines alone give
\* exactly one triple named SAT_1.
C2_NameStripped ==
    splitPc = "done" =>
        /\ NamedTextStripped =>
              Len(scan.sats) = 1 /\ IsStripped(rawLines[1], scan.sats[1].name)
        /\ BareTextStripped =>
              Len(scan.sats) = 1 /\ scan.sats[1].name = Sat1

\* A name line with whitespace around it has been split off its two lines.
C2_PaddedNameSplit ==
    /\ splitPc = "done"
    /\ NamedTextStripped
    /\ rawLines[1] = <<" ", "A", " ">>
    /\ Len(scan.sats) = 1

(***************************************************************************)
(* build_time_array: the offsets of the grid.                              *)
(***************************************************************************)

\* floor(durationDays * 86400), durationDays in DAY_FX units.
DurationSeconds == (numdays * 86400) \div DAY_FX

Offset(j) == gridOut.list[j] - start_dt

ConsecutiveOffsets ==
    \A j \in 1..Len(gridOut.list) : Offset(j) = (j - 1) * sample_seconds

\* C3 (as the specification states it): the offsets are 0, step, 2*step,
\* ..., each at most floor(durationDays * 86400), the last one the largest
\* multiple of the step within that bound.
C3_OffsetsWithinDuration ==
    gridOut.err = "" =>
        /\ ConsecutiveOffsets
        /\ \A j \in 1..Len(gridOut.list) : Offset(j) <= DurationSeconds
        /\ Offset(Len(gridOut.list)) + sample_seconds > DurationSeconds

\* C3 (amended): the offsets are 0, step, 2*step, ...; when the step is at
\* most floor(durationDays * 86400) each is within that bound and the last
\* is the largest multiple of the step within it; when the step is larger
\* the grid is the two offsets 0 and step, the second beyond the bound.
\* One day at 3600 s gives the 25 offsets 0, 3600, ..., 86400.
C3_OffsetsOrTwoEntries ==
    gridOut.err = "" =>
        /\ ConsecutiveOffsets
        /\ sample_seconds <= DurationSeconds =>
              /\ \A j \in 1..Len(gridOut.list) : Offset(j) <= DurationSeconds
              /\ Offset(Len(gridOut.list)) + sample_seconds > DurationSeconds
        /\ sample_seconds > DurationSeconds => Len(gridOut.list) = 2
        /\ (numdays = DAY_FX /\ sample_seconds = 3600) =>
              Len(gridOut.list) = 25 /\ Offset(25) = 86400

\* The grid of one day at 3600 s has been built.
C3_OneDayHourly ==
    /\ gridOut.err = ""
    /\ numdays = DAY_FX
    /\ sample_seconds = 3600
    /\ Len(gridOut.list) = 25

(***************************************************************************)
(* parse_tle: short lines, fixed columns and the year pivot.               *)
(***************************************************************************)

\* The 0-indexed half-open column ranges of the numeric fields.
Line1NumericColumns == (18..19) \cup (20..31)

Line2NumericColumns ==
    (8..15) \cup (17..24) \cup (26..32) \cup (34..41) \cup (43..50) \cup (52..62)

HoldsLetter(ln, cols) == \E c \in cols : c < Len(ln) /\ ln[c + 1] = "X"

\* C4 (as the specification states it): a line 1 shorter than 32 characters,
\* a line 2 shorter than 63 characters or a letter in a numeric field ends
\* parse_tle in the parser's error (the ValueError of int() and float()),
\* never in an element set.  The code never looks at the lengths: the first
\* 31 characters of line 1 parse, the last field read from what is left.
C4_ShortOrNonNumericFails ==
    (parseOut # Pending
     /\ \/ Len(line1) < 32
        \/ Len(line2) < 63
        \/ HoldsLetter(line1, Line1NumericColumns)
        \/ HoldsLetter(line2, Line2NumericColumns))
    => parseOut.err = "ValueError"

\* The positive decimal with integer digits ip and fraction digits fp.
Dec(ip, fp) == [err |-> "", neg |-> FALSE, ip |-> ip, fp |-> fp]

\* The elements written in the reference ISS TLE.
IssSatnum == <<"2", "5", "5", "4", "4">>

IssEpochDay == Dec(<<"4", "5">>, <<"1", "8", "5", "8", "7", "0", "7", "3">>)

IssInclination == Dec(<<"5", "1">>, <<"6", "4", "4", "4">>)

IssRaan == Dec(<<"2", "3">>, <<"2", "0", "6", "2">>)

IssEccentricity == Dec(<<>>, <<"0", "0", "0", "5", "7">>)

IssArgp == Dec(<<"8", "2">>, <<"6", "5", "7", "9">>)

IssMeanAnom == Dec(<<"8", "3">>, <<"8", "4", "8", "1">>)

IssMeanMotion == Dec(<<"1", "5">>, <<"4", "9", "2", "8", "5", "2", "7", "4">>)

\* ln holds the reference line's characters at the columns [a, b).
SameColumns(ln, ref, a, b) ==
    Len(ln) >= b /\ SubSeq(ln, a + 1, b) = SubSeq(ref, a + 1, b)

\* ln is the reference line with one digit of the columns [a, b) replaced
\* by another digit.
DigitChanged(ln, ref, a, b) ==
    \E c \in a..(b - 1) : \E ch \in Digits :
        ref[c + 1] \in Digits /\ ch # ref[c + 1] /\ ln = Subst(ref, c, ch)

\* C5: whenever the two lines parse, a field whose columns hold the
\* reference TLE's characters has the reference TLE's value whatever the
\* other columns hold, and a field one of whose digits is changed has
\* another value: catalog number [2,7), year [18,20), day [20,32) of line 1;
\* inclination [8,16), RAAN [17,25), eccentricity [26,33) read as
\* mantissa / 10^7, argument of perigee [34,42), mean anomaly [43,51), mean
\* motion [52,63) of line 2.  For the reference TLE the inclination is
\* 51.6444, the eccentricity 0.00057 and the mean motion 15.49285274.
C5_FixedColumns ==
    parseOut.err = "" =>
        /\ SameColumns(line1, IssLine1, 2, 7) => parseOut.satnum = IssSatnum
        /\ SameColumns(line1, IssLine1, 18, 20) => parseOut.epoch_year = 2020
        /\ SameColumns(line1, IssLine1, 20, 32) => parseOut.epoch_day = IssEpochDay
        /\ SameColumns(line2, IssLine2, 8, 16) => parseOut.inclination = IssInclination
        /\ SameColumns(line2, IssLine2, 17, 25) => parseOut.raan = IssRaan
        /\ SameColumns(line2, IssLine2, 26, 33) =>
              parseOut.eccentricity = IssEccentricity
        /\ SameColumns(line2, IssLine2, 34, 42) => parseOut.argp = IssArgp
        /\ SameColumns(line2, IssLine2, 43, 51) => parseOut.mean_anom = IssMeanAnom
        /\ SameColumns(line2, IssLine2, 52, 63) =>
              parseOut.mean_motion_rev_per_day = IssMeanMotion
        /\ DigitChanged(line1, IssLine1, 2, 7) => parseOut.satnum # IssSatnum
        /\ DigitChanged(line1, IssLine1, 18, 20) => parseOut.epoch_year # 2020
        /\ DigitChanged(line1, IssLine1, 20, 32) => parseOut.epoch_day # IssEpochDay
        /\ DigitChanged(line2, IssLine2, 8, 16) => parseOut.inclination # IssInclination
        /\ DigitChanged(line2, IssLine2, 17, 25) => parseOut.raan # IssRaan
        /\ DigitChanged(line2, IssLine2, 26, 33) =>
              parseOut.eccentricity # IssEccentricity
        /\ DigitChanged(line2, IssLine2, 34, 42) => parseOut.argp # IssArgp
        /\ DigitChanged(line2, IssLine2, 43, 51) => parseOut.mean_anom # IssMeanAnom
        /\ DigitChanged(line2, IssLine2, 52, 63) =>
              parseOut.mean_motion_rev_per_day # IssMeanMotion

\* The reference TLE has been parsed with a character changed between two
\* fields of line 2.
C5_ParsedWithSeparatorChanged ==
    /\ parseOut.err = ""
    /\ line1 = IssLine1
    /\ line2 = Subst(IssLine2, 16, "X")
    /\ parseOut.inclination = IssInclination
    /\ parseOut.raan = IssRaan

\* The reference line 1 with the 2-digit year yy.
YearLine(yy) ==
    Subst(Subst(IssLine1, 18, DigitChar(yy \div 10)), 19, DigitChar(yy % 10))

\* C6: for every 2-digit year yy in 0..99 parse_tle returns epoch_year =
\* 2000 + yy when yy < 57 and 1900 + yy otherwise: a year in 1957..2056 whose
\* last two digits are yy, so that no two yy give the same year.
C6_YearPivot ==
    \A yy \in 0..99 :
        (line1 = YearLine(yy) /\ line2 = IssLine2 /\ parseOut # Pending) =>
            /\ parseOut.err = ""
            /\ parseOut.epoch_year = (IF yy < 57 THEN 2000 + yy ELSE 1900 + yy)
            /\ parseOut.epoch_year \in 1957..2056
            /\ parseOut.epoch_year % 100 = yy

\* The year 57, the first one read as 19yy, has been parsed.
C6_Year57Parsed ==
    /\ line1 = YearLine(57)
    /\ parseOut.err = ""
    /\ parseOut.epoch_year = 1957

(***************************************************************************)
(* propagate_kepler: independent samples, the period of a circular orbit   *)
(* and degenerate orbits.                                                  *)
(***************************************************************************)

Position(j) == <<loop.xs[j], loop.ys[j], loop.zs[j]>>

\* The position of the elements el at the offset dt alone.
PositionAt(el, dt) ==
    LET s == PropagateSample(el, dt) IN <<s.x, s.y, s.z>>

\* C7: the list passed is never changed, the samples computed so far are
\* each the position of the elements at the sample's own offset, whatever
\* the other offsets of the list and their order, and the three lists
\* returned have the length of the list passed (none for the empty list).
C7_SamplesIndependent ==
    /\ times = timesIn
    /\ Len(loop.xs) = loop.k /\ Len(loop.ys) = loop.k /\ Len(loop.zs) = loop.k
    /\ \A j \in 1..loop.k : Position(j) = PositionAt(elems, timesIn[j])
    /\ propPc = "returned" => loop.k = Len(timesIn)

\* Two offsets out of order have been propagated to two positions.
C7_UnsortedReturned ==
    /\ propPc = "returned"
    /\ Len(timesIn) = 2
    /\ timesIn[1] > timesIn[2]
    /\ Position(1) # Position(2)

\* The list holds an offset and the offset one period later, of a circular
\* orbit.
OnePeriodApart ==
    /\ propPc = "returned"
    /\ elems.e = 0
    /\ Len(timesIn) = 2
    /\ timesIn[2] = timesIn[1] + Period(elems.mean_motion_rev_per_day)

\* The distance that the rounding of n_rad_s and of n_rad_s * dt over one
\* period moves a point of the orbit.
PositionTolerance(el) ==
    MulDiv(el.a_km, Period(el.mean_motion_rev_per_day) \div FX + 3, FX)

\* C8 (as the specification states it): on a circular orbit the position at
\* t + 86400 / meanMotion equals the position at t.
C8_PeriodReturnsExactly == OnePeriodApart => Position(2) = Position(1)

\* C8 (amended): on a circular orbit the position at t + 86400 / meanMotion
\* is the position at t to within the rounding of n_rad_s * dt, coordinate
\* by coordinate.
C8_PeriodReturnsWithinRounding ==
    OnePeriodApart =>
        \A c \in 1..3 : Abs(Position(2)[c] - Position(1)[c]) <= PositionTolerance(elems)

\* A circular orbit has been propagated to an offset and one period later,
\* and the two positions differ.
C8_PeriodPropagated == OnePeriodApart /\ timesIn[1] = 5 /\ Position(2) # Position(1)

\* C9 (as the specification states it): an eccentricity of exactly 1 ends
\* the propagation in a DegenerateOrbitError.  The code raises the
\* ZeroDivisionError of r = p / (1 + e cos nu), and newtonm itself returns
\* nu = pi without an error.
C9_DegenerateOrbitNamed ==
    (elems # Pending /\ elems.e = FX /\ timesIn # <<>> /\ propPc \in {"returned", "raised"})
    => (propPc = "raised" /\ loop.err = "DegenerateOrbitError")

(***************************************************************************)
(* app.py: what a run does after the parse.                                *)
(***************************************************************************)

Happened(e) == \E j \in 1..Len(events) : events[j] = e

\* e happened, and f before it.
HappenedAfter(e, f) ==
    \E j \in 1..Len(events) : events[j] = e /\ \E k \in 1..(j - 1) : events[k] = f

\* C10: once parse_tle fails the run is over and nothing more is done (no
\* epoch, true anomaly, display, propagation or rendering follows); the
\* orbit is rendered only after a parse that succeeded and a propagation
\* that completed after it; and the orbit is propagated only when the
\* visualization was asked for.
C10_ParseFailureEndsRun ==
    /\ \A j \in 1..Len(events) :
          events[j] = "parse_failed" => (j = Len(events) /\ appPc = "failed")
    /\ Happened("render") =>
          /\ HappenedAfter("render", "propagate")
          /\ HappenedAfter("propagate", "parse_ok")
          /\ ~Happened("parse_failed")
    /\ Happened("propagate") => widgets.do_visualize
    /\ \A e \in {"epoch", "true_anomaly", "display", "grid", "propagate"} :
          Happened(e) => HappenedAfter(e, "parse_ok")

\* The parse of the selected TLE has failed in a run asked to visualize.
C10_ParseFailed ==
    /\ appPc = "failed"
    /\ widgets.do_visualize
    /\ events[Len(events)] = "parse_failed"

(***************************************************************************)
(* parse_tle_lines: termination and the empty result.                      *)
(***************************************************************************)

\* The line holds more than whitespace.
IsNonBlank(ln) == \E j \in 1..Len(ln) : ln[j] \notin Whitespace

\* The lines j < k of the text are not blank, the lines between them are,
\* and they start with "1 " and "2 ".
AdjacentPair(j, k) ==
    /\ j < k
    /\ \A m \in (j + 1)..(k - 1) : ~IsNonBlank(rawLines[m])
    /\ StartsStripped(rawLines[j], ElementLine1)
    /\ StartsStripped(rawLines[k], ElementLine2)

HoldsPair == \E j, k \in 1..Len(rawLines) : AdjacentPair(j, k)

\* C11: for every text the call ends and returns a list: the index i grows
\* on every pass of the loop, no pass reads a line after the last one (i
\* stays within the non-blank lines, of which there are no more than the
\* text has), and the list is empty whenever no line starting with "1 " is
\* followed, blank lines aside, by a line starting with "2 ".
C11_ScanTerminates ==
    /\ [](/\ scan.i >= 0
          /\ scan.i <= Len(lines)
          /\ Len(lines) <= Len(rawLines)
          /\ (splitPc = "done" /\ ~HoldsPair) => scan.sats = <<>>)
    /\ [][(splitPc = "scan" /\ splitPc' = "scan") => scan'.i > scan.i]_vars
    /\ <>(splitPc = "done")

\* A text that ends in a lone "1 " line has been scanned to the end.
C11_LoneLineScanned ==
    /\ splitPc = "done"
    /\ rawLines = <<<<"B">>, <<"1", " ", "A">>>>
    /\ scan.sats = <<>>

(***************************************************************************)
(* newtonm: Kepler's equation.                                             *)
(***************************************************************************)

\* E - e sin(E) - M of the pair returned, in units of 1/FX.
KeplerResidual == n_out.E - FMul(n_ecc, Sin(n_out.E)) - n_m

PairAt(i) ==
    /\ i + 2 <= Len(lines)
    /\ startswith(lines[i + 1], <<"1", " ">>)
    /\ startswith(lines[i + 2], <<"2", " ">>)

\* The pass appended one satellite, of this name, with the lines at j and j+1.
Appended(name, j) ==
    /\ Len(scan'.sats) = Len(scan.sats) + 1
    /\ SubSeq(scan'.sats, 1, Len(scan.sats)) = scan.sats
    /\ scan'.sats[Len(scan'.sats)] = [name |-> name, l1 |-> lines[j], l2 |-> lines[j + 1]]

\* C13: a pass at position i takes the line there as the name and three
\* lines when the two lines after it are a pair, whatever the line at i
\* starts with; failing that it takes two lines when the lines at i and
\* after it are a pair, under the name SAT_k with k the position the
\* satellite gets in the list; failing that it moves on by one line.
C13_PatternOrder ==
    [][(splitPc = "scan" /\ splitPc' = "scan") =>
         IF PairAt(scan.i + 1)
         THEN scan'.i = scan.i + 3 /\ Appended(lines[scan.i + 1], scan.i + 2)
         ELSE IF PairAt(scan.i)
         THEN /\ scan'.i = scan.i + 2
              /\ Appended(<<"S", "A", "T", "_", DigitChar(Len(scan'.sats))>>,
                          scan.i + 1)
         ELSE scan'.i = scan.i + 1 /\ scan'.sats = scan.sats]_vars

\* A named satellite is followed by an unnamed one, which is SAT_2; and an
\* element line has been taken as a name.
C13_SecondIsSat2 ==
    /\ splitPc = "done"
    /\ Len(scan.sats) = 2
    /\ scan.sats[1].name = <<"1", " ", "A">>
    /\ scan.sats[2].name = <<"S", "A", "T", "_", "2">>

(***************************************************************************)
(* newtonm: the passes of the loop and what is returned.                   *)
(***************************************************************************)

\* C14: with ecc <= 1 + 1e-8 newtonm makes between 1 and 100 updates, the
\* last of them being the first whose step is within the tolerance or else
\* the 100th, and returns a pair whose E is the estimate that update left;
\* with ecc > 1 + 1e-8 it returns a pair without any update.
C14_AlwaysReturnsPair ==
    n_pc = "done" =>
        /\ n_out.err = ""
        /\ IF n_ecc > FX \/ (n_ecc = FX /\ n_excess > SmallNano)
           THEN n_out.iters = 0
           ELSE /\ n_out.iters >= 1
                /\ n_out.iters <= 100
                /\ n_out.E = n_loop.E
                /\ n_loop.met \/ n_out.iters = 100

(***************************************************************************)
(* kepler_to_eci: the rotation.                                            *)
(***************************************************************************)

\* The elementary rotations about z and x by the angle a (in DEG_FX units),
\* as rows of entries in units of 1/FX.
Rz(a) ==
    <<<<Cos(Radians(a)), -Sin(Radians(a)), 0>>,
      <<Sin(Radians(a)), Cos(Radians(a)), 0>>,
      <<0, 0, FX>>>>

Rx(a) ==
    <<<<FX, 0, 0>>,
      <<0, Cos(Radians(a)), -Sin(Radians(a))>>,
      <<0, Sin(Radians(a)), Cos(Radians(a))>>>>

MatMul(A, B) ==
    [r \in 1..3 |->
        [c \in 1..3 |-> FMul(A[r][1], B[1][c]) + FMul(A[r][2], B[2][c])
                            + FMul(A[r][3], B[3][c])]]

\* Rz(RAAN) Rx(i) Rz(argp)
RotationProduct ==
    MatMul(Rz(angles.raan_deg), MatMul(Rx(angles.inc_deg), Rz(angles.argp_deg)))

\* The locals R11..R33 by rows.
Coefficients ==
    <<<<rot.R11, rot.R12, rot.R13>>,
      <<rot.R21, rot.R22, rot.R23>>,
      <<rot.R31, rot.R32, rot.R33>>>>

AllRightAngles ==
    /\ angles.inc_deg \in RightAngles
    /\ angles.raan_deg \in RightAngles
    /\ angles.argp_deg \in RightAngles

\* C15: the coefficients R11..R33 are, entry by entry, those of
\* Rz(RAAN) Rx(i) Rz(argp): exactly so at the multiples of 90 degrees, and
\* to the rounding of the products elsewhere; and the z returned is the z of
\* the same orbit with RAAN = 0.
C15_RotationIsProduct ==
    /\ rot # Pending =>
          \A r, c \in 1..3 :
              Abs(Coefficients[r][c] - RotationProduct[r][c])
                  <= (IF AllRightAngles THEN 0 ELSE 2)
    /\ eci # Pending =>
          /\ eci.err = ""
          /\ eci.z = kepler_to_eci(RotatedAxis, 0, angles.inc_deg, 0,
                                   angles.argp_deg, Radians(angles.nu_deg)).z

\* An orbit turned by a right angle about each axis has been placed.
C15_RightAnglesPlaced ==
    /\ eci # Pending
    /\ angles.inc_deg = 90 * DEG_FX
    /\ angles.raan_deg = 90 * DEG_FX
    /\ angles.argp_deg = 270 * DEG_FX
    /\ rot.R23 = 0 /\ rot.R13 = FX /\ rot.R31 = -FX
    /\ eci.z # 0

(***************************************************************************)
(* parse_tle_lines: no pair is lost.                                       *)
(***************************************************************************)

\* The lines of the text that are not blank, as they stand in the text.
NonBlankRaw == SelectSeq(rawLines, IsNonBlank)

\* Where a line starting with "1 " is followed by a line starting with "2 ".
PairPositions ==
    {j \in 1..(Len(NonBlankRaw) - 1) :
        /\ StartsStripped(NonBlankRaw[j], <<"1", " ">>)
        /\ StartsStripped(NonBlankRaw[j + 1], <<"2", " ">>)}

\* The k-th of these positions, in the order of the text.
KthPair(k) ==
    CHOOSE j \in PairPositions :
        Cardinality({q \in PairPositions : q < j}) = k - 1

\* C16: the list returned holds one triple for each position at which a
\* line starting with "1 " is followed by a line starting with "2 ", in the
\* order of the text and with these two lines (less the whitespace around
\* them) as line1 and line2, and it holds no other triple.
C16_EveryPairReturned ==
    splitPc = "done" =>
        /\ Len(scan.sats) = Cardinality(PairPositions)
        /\ \A k \in 1..Len(scan.sats) :
              /\ IsStripped(NonBlankRaw[KthPair(k)], scan.sats[k].l1)
              /\ IsStripped(NonBlankRaw[KthPair(k) + 1], scan.sats[k].l2)
              /\ startswith(scan.sats[k].l1, <<"1", " ">>)
              /\ startswith(scan.sats[k].l2, <<"2", " ">>)

\* A named pair and the unnamed pair after it are both returned.
C16_TwoPairsAmongStrays ==
    /\ splitPc = "done"
    /\ rawLines = <<<<"B">>, <<"1", " ", "A">>, <<"2", " ", "A">>,
                    <<"1", " ", "A">>, <<"2", " ", "A">>>>
    /\ Len(scan.sats) = 2

(***************************************************************************)
(* app.py: the satellite selected.                                         *)
(***************************************************************************)

\* C17: once a satellite is selected, the element lines the script goes on
\* with, parses and propagates are those of the entry the user selected in
\* the select box, also when two entries show the same name.
C17_SelectedEntryUsed ==
    locals.picked # 0 =>
        /\ locals.l1 = locals.triples[locals.picked].l1
        /\ locals.l2 = locals.triples[locals.picked].l2
        /\ locals.data # Pending =>
              locals.data = parse_tle(locals.triples[locals.picked].l1,
                                      locals.triples[locals.picked].l2)

(***************************************************************************)
(* app.py: the offsets handed to the propagator.                           *)
(***************************************************************************)

\* What the duration slider and the interval box can supply: 0.1 to 30.0
\* days in steps of 0.1, in DAY_FX units, and 10 to 3600 s in steps of 10.
UiNumdays == {(DAY_FX \div 10) * k : k \in 1..300}

UiSampleSeconds == {10 * k : k \in 1..360}

\* The offsets of the datetimes build_time_array returns for the widgets'
\* values, from the start datetime 0.
GridOffsets ==
    build_time_array(0, widgets.numdays, widgets.sample_seconds)

\* C18: the offsets the script hands to propagate_kepler are those of the
\* datetimes build_time_array returns for the same days and interval, as
\* many and the same; they start at 0 and are two or more, and the track
\* rendered has a point for each.  Over the whole range of the widgets the
\* shortest duration holds the longest interval more than once, so that
\* build_time_array's floor of 2 entries never comes into play.
C18_OffsetsAreTheGrid ==
    /\ widgets.numdays \in UiNumdays
    /\ widgets.sample_seconds \in UiSampleSeconds
    /\ Happened("grid") =>
          /\ locals.times_seconds = GridOffsets
          /\ Len(locals.times_seconds) >= 2
          /\ locals.times_seconds[1] = 0
          /\ \A d \in UiNumdays :
                \A sec \in {10, 3600} :
                    Max(2, TotalSeconds(d) \div sec + 1) = TotalSeconds(d) \div sec + 1
    /\ Happened("render") =>
          /\ Len(locals.track.xs) = Len(GridOffsets)
          /\ Len(locals.track.xs) >= 2

\* The shortest duration with the longest interval has been rendered.
C18_ShortestGridRendered ==
    /\ Happened("render")
    /\ widgets.numdays = DAY_FX \div 10
    /\ widgets.sample_seconds = 3600
    /\ locals.times_seconds = <<0, 3600, 7200>>

=============================================================================
